---- MODULE Spec2Model ----
(***************************************************************************)
(* Reclocking of one update record into the partially ordered Time domain  *)
(* of src/main.rs: the Time lattice (mod order), the AltNeu two-phase      *)
(* extension, reclock_record, and the arrange/reduce/integrate pipeline    *)
(* that main() builds and drives.                                          *)
(***************************************************************************)
EXTENDS Integers, Sequences, FiniteSets, TLC

VARIABLES pc, record, frontier, inserts, updates, input, processed, reduced, output,
          lpc, lhs, rhs, third, result

vars == <<pc, record, frontier, inserts, updates, input, processed, reduced, output,
          lpc, lhs, rhs, third, result>>

pipeVars == <<pc, record, frontier, inserts, updates, input, processed, reduced, output>>

latVars == <<lpc, lhs, rhs, third, result>>

----------------------------------------------------------------------------
(* Bounds *)

\* number of elements offered to Antichain::from_iter
MaxInserts == 3

\* largest multiplicity of the source record (the smallest is -1)
MaxDiff == 2

\* largest FromTime of the source record
MaxFromTime == 1

Diffs == (-1)..MaxDiff

FromTimes == 0..MaxFromTime

Payloads == {"data"}

----------------------------------------------------------------------------
(* mod order: the Time enum and its partial order *)

Time == {"A", "B", "C", "D", "E", "F", "G"}

\* the value that stands for the panic of `_ => unreachable!()`
Unreachable == "unreachable"

Minimum == "A"

\* less_equal with the F alternative of the C arm left out
TimeLessEqualNoCF(a, b) ==
    \/ a = "A" /\ b \in Time
    \/ a = "B" /\ b \in {"B", "E", "G"}
    \/ a = "C" /\ b \in {"C", "E", "G"}
    \/ a = "D" /\ b \in {"D", "F", "G"}
    \/ a = "E" /\ b \in {"E", "G"}
    \/ a = "F" /\ b \in {"F", "G"}
    \/ a = "G" /\ b = "G"

TimeLessEqual(a, b) ==
    \/ a = "A" /\ b \in Time
    \/ a = "B" /\ b \in {"B", "E", "G"}
    \/ a = "C" /\ b \in {"C", "E", "F", "G"}
    \/ a = "D" /\ b \in {"D", "F", "G"}
    \/ a = "E" /\ b \in {"E", "G"}
    \/ a = "F" /\ b \in {"F", "G"}
    \/ a = "G" /\ b = "G"

JoinToG == {<<"B", "D">>, <<"D", "B">>, <<"B", "F">>, <<"F", "B">>,
            <<"E", "D">>, <<"D", "E">>, <<"E", "F">>, <<"F", "E">>}

JoinToE == {<<"B", "C">>, <<"C", "B">>}

JoinToF == {<<"C", "D">>, <<"D", "C">>}

\* join with the (B, C) arm sent to G
TimeJoinBCToG(a, b) ==
    IF TimeLessEqual(a, b) THEN b
    ELSE IF TimeLessEqual(b, a) THEN a
    ELSE IF <<a, b>> \in JoinToG \cup JoinToE THEN "G"
    ELSE IF <<a, b>> \in JoinToF THEN "F"
    ELSE Unreachable

TimeJoin(a, b) ==
    IF TimeLessEqual(a, b) THEN b
    ELSE IF TimeLessEqual(b, a) THEN a
    ELSE IF <<a, b>> \in JoinToG THEN "G"
    ELSE IF <<a, b>> \in JoinToE THEN "E"
    ELSE IF <<a, b>> \in JoinToF THEN "F"
    ELSE Unreachable

MeetToA == {<<"B", "C">>, <<"C", "B">>, <<"C", "D">>, <<"D", "C">>,
            <<"B", "D">>, <<"D", "B">>, <<"B", "F">>, <<"F", "B">>,
            <<"E", "D">>, <<"D", "E">>}

MeetToC == {<<"E", "F">>, <<"F", "E">>}

\* meet with the (B, F) | (F, B) patterns left out
TimeMeetNoBF(a, b) ==
    IF TimeLessEqual(a, b) THEN a
    ELSE IF TimeLessEqual(b, a) THEN b
    ELSE IF <<a, b>> \in MeetToA \ {<<"B", "F">>, <<"F", "B">>} THEN "A"
    ELSE IF <<a, b>> \in MeetToC THEN "C"
    ELSE Unreachable

TimeMeet(a, b) ==
    IF TimeLessEqual(a, b) THEN a
    ELSE IF TimeLessEqual(b, a) THEN b
    ELSE IF <<a, b>> \in MeetToA THEN "A"
    ELSE IF <<a, b>> \in MeetToC THEN "C"
    ELSE Unreachable

----------------------------------------------------------------------------
(* AltNeu<Time>: the two-phase extension *)

AltNeuTime == [time : Time, neu : BOOLEAN]

Alt(t) == [time |-> t, neu |-> FALSE]

Neu(t) == [time |-> t, neu |-> TRUE]

\* (t1,Alt)<=(t2,Alt), (t1,Neu)<=(t2,Neu), (t1,Alt)<=(t2,Neu) iff t1<=t2;
\* (t1,Neu)<=(t2,Alt) iff t1<t2
AltNeuLessEqual(x, y) ==
    IF x.neu /\ ~y.neu
    THEN TimeLessEqual(x.time, y.time) /\ x.time # y.time
    ELSE TimeLessEqual(x.time, y.time)

\* join of two Alt values is Alt; any pairing involving Neu is Neu
AltNeuJoin(x, y) ==
    [time |-> TimeJoin(x.time, y.time), neu |-> x.neu \/ y.neu]

AltNeuLess(x, y) == AltNeuLessEqual(x, y) /\ x # y

----------------------------------------------------------------------------
(* Antichain<Time> *)

Range(s) == {s[i] : i \in 1..Len(s)}

RECURSIVE Retain(_, _)
\* elements.retain(|x| !element.less_equal(x))
Retain(elements, element) ==
    IF elements = <<>> THEN <<>>
    ELSE IF TimeLessEqual(element, Head(elements))
         THEN Retain(Tail(elements), element)
         ELSE <<Head(elements)>> \o Retain(Tail(elements), element)

AntichainInsert(elements, element) ==
    IF \E i \in 1..Len(elements) : TimeLessEqual(elements[i], element)
    THEN elements
    ELSE Append(Retain(elements, element), element)

----------------------------------------------------------------------------
(* reclock_record *)

\* total_diff started from diff instead of R::zero()
TotalDiffFromDiff(fr, diff) == (Len(fr) + 1) * diff

RECURSIVE TotalDiff(_, _)
\* total_diff after the first loop: one plus_equals(&diff) per frontier element
TotalDiff(fr, diff) ==
    IF fr = <<>> THEN 0 ELSE TotalDiff(Tail(fr), diff) + diff

RECURSIVE FoldMeet(_, _)
\* the second loop folding with meet instead of join
FoldMeet(acc, fr) ==
    IF fr = <<>> THEN acc
    ELSE IF TimeMeet(acc, Head(fr)) = Unreachable THEN Unreachable
    ELSE FoldMeet(TimeMeet(acc, Head(fr)), Tail(fr))

RECURSIVE FoldJoin(_, _)
\* neu_into_ts after the second loop, started from acc = IntoTime::minimum()
FoldJoin(acc, fr) ==
    IF fr = <<>> THEN acc
    ELSE IF TimeJoin(acc, Head(fr)) = Unreachable THEN Unreachable
    ELSE FoldJoin(TimeJoin(acc, Head(fr)), Tail(fr))

\* the first loop pushing the running total_diff instead of diff
AltUpdatesRunningTotal(rec, fr) ==
    [i \in 1..Len(fr) |-> [data |-> rec, time |-> Alt(fr[i]), diff |-> i * rec.diff]]

AltUpdates(rec, fr) ==
    [i \in 1..Len(fr) |-> [data |-> rec, time |-> Alt(fr[i]), diff |-> rec.diff]]

\* the retraction carrying diff.negate() instead of total_diff.negate()
ReclockRecordSingleRetract(rec, fr) ==
    Append(AltUpdates(rec, fr),
           [data |-> rec, time |-> Neu(FoldJoin(Minimum, fr)), diff |-> 0 - rec.diff])

\* the retraction placed at AltNeu::alt instead of AltNeu::neu
ReclockRecordAltRetract(rec, fr) ==
    Append(AltUpdates(rec, fr),
           [data |-> rec, time |-> Alt(FoldJoin(Minimum, fr)),
            diff |-> 0 - TotalDiff(fr, rec.diff)])

ReclockRecord(rec, fr) ==
    Append(AltUpdates(rec, fr),
           [data |-> rec, time |-> Neu(FoldJoin(Minimum, fr)),
            diff |-> 0 - TotalDiff(fr, rec.diff)])

----------------------------------------------------------------------------
(* The dataflow: arrange_by_self, reduce, integrate *)

RECURSIVE Accumulated(_, _)
\* accumulated multiplicity of the key in the arrangement at time t: the sum of
\* the diffs of the updates of the input at times less_equal to t
Accumulated(in, t) ==
    IF in = <<>> THEN 0
    ELSE (IF AltNeuLessEqual(Head(in).time, t) THEN Head(in).diff ELSE 0)
             + Accumulated(Tail(in), t)

RECURSIVE JoinClosure(_)
JoinClosure(S) ==
    LET next == S \cup {AltNeuJoin(x, y) : x, y \in S}
    IN IF next = S THEN S ELSE JoinClosure(next)

\* the times at which reduce may have to change its output
InterestingTimes(in) == JoinClosure({in[i].time : i \in 1..Len(in)})

\* the closure pushing the accumulated count instead of the original diff
ReduceLogicCount(rec, acc) == acc

\* the closure of reduce: output.push(((), *diff)), called on non-empty input only
ReduceLogic(rec, acc) == IF acc # 0 THEN rec.diff ELSE 0

RECURSIVE SumOver(_, _)
SumOver(S, f) ==
    IF S = {} THEN 0
    ELSE LET s == CHOOSE s \in S : TRUE IN f[s] + SumOver(S \ {s}, f)

\* the change reduce emits at time t, given what it emitted before
ReduceDelta(rec, in, red, t) ==
    ReduceLogic(rec, Accumulated(in, t))
        - SumOver({s \in AltNeuTime : AltNeuLess(s, t)}, red)

\* integrate: running sum of the deltas over the two-phase order
Integrate(out, t, delta) ==
    [x \in AltNeuTime |-> out[x] + (IF AltNeuLessEqual(t, x) THEN delta ELSE 0)]

----------------------------------------------------------------------------
(* main(): build the frontier, reclock, feed the input, run to completion *)

Zeros == [x \in AltNeuTime |-> 0]

Records == [data : Payloads, time : FromTimes, diff : Diffs]

PipeInit ==
    /\ pc = "build"
    /\ record \in Records
    /\ frontier = <<>>
    /\ inserts = 0
    /\ updates = <<>>
    /\ input = <<>>
    /\ processed = {}
    /\ reduced = Zeros
    /\ output = Zeros

LatIdle ==
    /\ lpc = "idle"
    /\ lhs = Alt(Minimum)
    /\ rhs = Alt(Minimum)
    /\ third = Minimum
    /\ result = Alt(Minimum)

Init == PipeInit /\ LatIdle

\* Antichain::from_iter, one element at a time
Insert(t) ==
    /\ pc = "build"
    /\ inserts < MaxInserts
    /\ frontier' = AntichainInsert(frontier, t)
    /\ inserts' = inserts + 1
    /\ UNCHANGED <<pc, record, updates, input, processed, reduced, output>>

\* the call reclock_record(record, frontier)
Reclock ==
    /\ pc = "build"
    /\ IF FoldJoin(Minimum, frontier) = Unreachable
       THEN pc' = "panic" /\ UNCHANGED updates
       ELSE pc' = "give" /\ updates' = ReclockRecord(record, frontier)
    /\ UNCHANGED <<record, frontier, inserts, input, processed, reduced, output>>

\* one iteration of the loop handle.session(cap.delayed(&time)).give(..)
Give ==
    /\ pc = "give"
    /\ Len(input) < Len(updates)
    /\ input' = Append(input, updates[Len(input) + 1])
    /\ UNCHANGED <<pc, record, frontier, inserts, updates, processed, reduced, output>>

\* drop(cap)
DropCap ==
    /\ pc = "give"
    /\ Len(input) = Len(updates)
    /\ pc' = "step"
    /\ UNCHANGED <<record, frontier, inserts, updates, input, processed, reduced, output>>

\* worker.step(): the dataflow completes one more time
Step(t) ==
    /\ pc = "step"
    /\ t \in InterestingTimes(input) \ processed
    /\ \A s \in InterestingTimes(input) : AltNeuLess(s, t) => s \in processed
    /\ LET delta == ReduceDelta(record, input, reduced, t)
       IN /\ reduced' = [reduced EXCEPT ![t] = delta]
          /\ output' = Integrate(output, t, delta)
    /\ processed' = processed \cup {t}
    /\ UNCHANGED <<pc, record, frontier, inserts, updates, input>>

\* probe.done()
Done ==
    /\ pc = "step"
    /\ InterestingTimes(input) \subseteq processed
    /\ pc' = "done"
    /\ UNCHANGED <<record, frontier, inserts, updates, input, processed, reduced, output>>

Next ==
    \/ \E t \in Time : Insert(t) /\ UNCHANGED latVars
    \/ Reclock /\ UNCHANGED latVars
    \/ Give /\ UNCHANGED latVars
    \/ DropCap /\ UNCHANGED latVars
    \/ \E t \in AltNeuTime : Step(t) /\ UNCHANGED latVars
    \/ Done /\ UNCHANGED latVars

Spec == Init /\ [][Next]_vars

----------------------------------------------------------------------------
(* The lattice operations applied to every pair of times *)

PipeIdle ==
    /\ pc = "idle"
    /\ record = [data |-> "data", time |-> 0, diff |-> 0]
    /\ frontier = <<>>
    /\ inserts = 0
    /\ updates = <<>>
    /\ input = <<>>
    /\ processed = {}
    /\ reduced = Zeros
    /\ output = Zeros

LatInit ==
    /\ PipeIdle
    /\ lpc = "args"
    /\ lhs \in AltNeuTime
    /\ rhs \in AltNeuTime
    /\ third \in Time
    /\ result = Alt(Minimum)

ApplyLessEqual ==
    /\ lpc = "args"
    /\ lpc' = "less_equal"
    /\ result' = TimeLessEqual(lhs.time, rhs.time)
    /\ UNCHANGED <<lhs, rhs, third>>

ApplyJoin ==
    /\ lpc = "args"
    /\ lpc' = "join"
    /\ result' = TimeJoin(lhs.time, rhs.time)
    /\ UNCHANGED <<lhs, rhs, third>>

ApplyMeet ==
    /\ lpc = "args"
    /\ lpc' = "meet"
    /\ result' = TimeMeet(lhs.time, rhs.time)
    /\ UNCHANGED <<lhs, rhs, third>>

\* the second loop of reclock_record over the frontier [lhs, rhs, third]
ApplyFold ==
    /\ lpc = "args"
    /\ lpc' = "fold"
    /\ result' = FoldJoin(Minimum, <<lhs.time, rhs.time, third>>)
    /\ UNCHANGED <<lhs, rhs, third>>

ApplyAltNeuJoin ==
    /\ lpc = "args"
    /\ lpc' = "altneu_join"
    /\ result' = AltNeuJoin(lhs, rhs)
    /\ UNCHANGED <<lhs, rhs, third>>

LatNext ==
    \/ ApplyLessEqual /\ UNCHANGED pipeVars
    \/ ApplyJoin /\ UNCHANGED pipeVars
    \/ ApplyMeet /\ UNCHANGED pipeVars
    \/ ApplyFold /\ UNCHANGED pipeVars
    \/ ApplyAltNeuJoin /\ UNCHANGED pipeVars

LatticeSpec == LatInit /\ [][LatNext]_vars

----------------------------------------------------------------------------
(* Order-theoretic vocabulary of the properties *)

UpperBounds(S) == {u \in Time : \A s \in S : TimeLessEqual(s, u)}

LowerBounds(S) == {l \in Time : \A s \in S : TimeLessEqual(l, s)}

IsLub(S, u) == u \in UpperBounds(S) /\ \A v \in UpperBounds(S) : TimeLessEqual(u, v)

IsGlb(S, l) == l \in LowerBounds(S) /\ \A v \in LowerBounds(S) : TimeLessEqual(v, l)

AltNeuUpper(x, y) ==
    {u \in AltNeuTime : AltNeuLessEqual(x, u) /\ AltNeuLessEqual(y, u)}

Reclocked == pc \in {"give", "step", "done"}

\* x lies in the visibility window of the frontier
InWindow(x) ==
    /\ \E i \in 1..Len(frontier) : AltNeuLessEqual(Alt(frontier[i]), x)
    /\ \E j \in Time : IsLub(Range(frontier), j) /\ AltNeuLess(x, Neu(j))

\* x is at or after the retraction
PastJoin(x) ==
    \E j \in Time : IsLub(Range(frontier), j) /\ AltNeuLessEqual(Neu(j), x)

RECURSIVE SumDiffs(_)
SumDiffs(s) == IF s = <<>> THEN 0 ELSE Head(s).diff + SumDiffs(Tail(s))

----------------------------------------------------------------------------
(* Properties *)

\* C1: for a non-empty frontier t1..tn, reclock_record returns exactly n+1
\* updates: update i is at Alt(ti) with multiplicity d, the last and only Neu
\* update is at Neu(least upper bound of the frontier) with multiplicity
\* -(n*d), and every update carries the unchanged record as its data.
C1_ReclockedUpdateSet ==
    (Reclocked /\ Len(frontier) >= 1) =>
        LET n == Len(frontier) IN
        /\ Len(updates) = n + 1
        /\ \A i \in 1..n :
              updates[i] = [data |-> record, time |-> Alt(frontier[i]),
                            diff |-> record.diff]
        /\ updates[n + 1].time.neu
        /\ IsLub(Range(frontier), updates[n + 1].time.time)
        /\ updates[n + 1].diff = 0 - (n * record.diff)
        /\ updates[n + 1].data = record
        /\ Cardinality({i \in 1..Len(updates) : updates[i].time.neu}) = 1

C1_Witness ==
    /\ pc = "give"
    /\ frontier = <<"B", "C", "D">>
    /\ record.diff = 2
    /\ updates[4] = [data |-> record, time |-> Neu("G"), diff |-> -6]

\* C2: the multiplicities of the updates emitted by one reclock_record call
\* sum to zero.
C2_ZeroSum == Reclocked => SumDiffs(updates) = 0

C2_Witness ==
    /\ pc = "give"
    /\ Len(frontier) = 2
    /\ record.diff = -1
    /\ updates[3].diff = 2

\* C3: once the dataflow has completed, at every two-phase time x that is at
\* or after Alt(ti) for some frontier member and strictly before
\* Neu(join(F)), the accumulated output multiplicity is exactly d.
C3_VisibilityWindow ==
    (pc = "done" /\ Len(frontier) >= 1) =>
        \A x \in AltNeuTime : InWindow(x) => output[x] = record.diff

C3_Witness ==
    /\ pc = "done"
    /\ frontier = <<"B", "C", "D">>
    /\ record.diff = 2
    /\ Accumulated(input, Alt("G")) = 6
    /\ InWindow(Alt("G"))
    /\ output[Alt("G")] = 2

\* C4: once the dataflow has completed, at every two-phase time x at or after
\* Neu(join(F)) the accumulated output multiplicity is 0.
C4_PostJoinAbsence ==
    (pc = "done" /\ Len(frontier) >= 1) =>
        \A x \in AltNeuTime : PastJoin(x) => output[x] = 0

C4_Witness ==
    /\ pc = "done"
    /\ frontier = <<"C", "B">>
    /\ record.diff = 2
    /\ reduced[Neu("E")] = -2
    /\ PastJoin(Alt("G"))
    /\ output[Alt("G")] = 0

\* C5: for a frontier of size 1, {t1}, the updates are +d at Alt(t1) and -d
\* at Neu(t1), and the completed output shows multiplicity d exactly at the
\* times x with Alt(t1) <= x and not Neu(t1) <= x, and 0 at every other time,
\* in particular at Neu(t1) and every later time.
C5_DegenerateFrontier ==
    (Reclocked /\ Len(frontier) = 1) =>
        LET t1 == frontier[1] IN
        /\ updates = << [data |-> record, time |-> Alt(t1), diff |-> record.diff],
                        [data |-> record, time |-> Neu(t1), diff |-> 0 - record.diff] >>
        /\ pc = "done" =>
              \A x \in AltNeuTime :
                  output[x] = IF AltNeuLessEqual(Alt(t1), x) /\ ~AltNeuLessEqual(Neu(t1), x)
                              THEN record.diff ELSE 0

C5_Witness ==
    /\ pc = "done"
    /\ frontier = <<"C">>
    /\ record.diff = 2
    /\ output[Alt("C")] = 2
    /\ output[Neu("C")] = 0
    /\ output[Alt("E")] = 0

\* C8 (as claimed): reclock_record does not return an update set for an empty
\* frontier.
C8_EmptyFrontierRejected == ~(Reclocked /\ frontier = <<>>)

\* C9: for a positive multiplicity and a non-empty frontier, at every
\* two-phase time x the multiplicities of the emitted updates at times
\* less_equal to x sum to a non-negative number.
C9_NetNonNegative ==
    (Reclocked /\ Len(frontier) >= 1 /\ record.diff > 0) =>
        \A x \in AltNeuTime : Accumulated(updates, x) >= 0

C9_Witness ==
    /\ pc = "give"
    /\ record.diff = 1
    /\ Len(frontier) = 3
    /\ Accumulated(updates, Alt("G")) = 3
    /\ Accumulated(updates, Neu("G")) = 0

\* C6: on the seven Time values, join is the least upper bound and meet the
\* greatest lower bound under less_equal, less_equal is reflexive,
\* antisymmetric and transitive, and the minimum A is less_equal to every value.
C6_TimeLattice ==
    LET a == lhs.time
        b == rhs.time
    IN /\ lpc = "join" => IsLub({a, b}, result)
       /\ lpc = "meet" => IsGlb({a, b}, result)
       /\ lpc = "less_equal" =>
             /\ a = b => result
             /\ (result /\ TimeLessEqual(b, a)) => a = b
             /\ (result /\ TimeLessEqual(b, third)) => TimeLessEqual(a, third)
             /\ Minimum = "A"
             /\ a = Minimum => result

C6_Witness ==
    /\ lpc = "meet"
    /\ lhs.time = "E"
    /\ rhs.time = "F"
    /\ result = "C"

C10_JoinMeetTotal ==
    lpc \in {"join", "meet", "fold"} => result # Unreachable

C10_Witness ==
    /\ lpc = "fold"
    /\ lhs.time = "B"
    /\ rhs.time = "C"
    /\ third = "D"
    /\ result = "G"

====
